---- MODULE Spec2Model ----
(***************************************************************************)
(* Half-edge mesh of compas and its split operations                       *)
(* (compas/datastructures/mesh/operations/split.py).                       *)
(*                                                                         *)
(* A mesh is the record [vertex, face, halfedge, max_int_key,              *)
(* max_int_fkey]: vertex is the set of vertex keys, face maps a face key   *)
(* to its loop (a Python list, here a sequence), halfedge[u][v] is the key *)
(* of the face on the left of (u, v) or None.  Python lists are indexed    *)
(* from 0; the list helpers below keep Python's indices.                   *)
(***************************************************************************)
EXTENDS Integers, Sequences, FiniteSets, TLC

\* ------------------------------------------------------------------ bounds
\* No split that adds a vertex is started once the mesh has this many
\* vertices.
MaxVertices == 5

\* No split that adds faces is started once this many face keys were issued.
MaxFaceKeys == 3

\* ---------------------------------------------------------------- constants
\* Python's None, distinct from every key (keys are naturals).
None == -1

\* The parameter t is a float; it is modelled in tenths (t = T / TScale),
\* so 0.0 is 0 and 1.0 is TScale.
TScale == 10

\* Values of t handed to the split operations: below 0.0, exactly 0.0,
\* inside (0.0, 1.0), exactly 1.0, above 1.0.
TValues == {-5, 0, 5, 10, 15}

\* ------------------------------------------------------- Python list helpers
\* list.index(x): 0-based position of the first x, or None when absent
\* (where Python raises ValueError).
ListIndex(s, x) ==
    IF \E k \in 1..Len(s) : s[k] = x
    THEN (CHOOSE k \in 1..Len(s) : s[k] = x /\ \A j \in 1..(k - 1) : s[j] # x) - 1
    ELSE None

\* s[k] for -len <= k < len (negative k counts from the end).
ListItem(s, k) == IF k < 0 THEN s[Len(s) + k + 1] ELSE s[k + 1]

\* s[a:b] for 0 <= a, 0 <= b <= len.
ListSlice(s, a, b) == SubSeq(s, a + 1, b)

\* s[a:]
ListFrom(s, a) == SubSeq(s, a + 1, Len(s))

\* s.insert(j, x) for 0 <= j <= len.
ListInsert(s, j, x) == SubSeq(s, 1, j) \o <<x>> \o SubSeq(s, j + 1, Len(s))

\* x in s
ListHas(s, x) == \E k \in 1..Len(s) : s[k] = x

\* ------------------------------------------------------- halfedge dictionary
\* v in halfedge[u]  (u itself must be a key of halfedge)
HasHalfedge(m, u, v) == u \in DOMAIN m.halfedge /\ v \in DOMAIN m.halfedge[u]

\* halfedge[u][v] = val
SetHalfedge(he, u, v, val) ==
    [he EXCEPT ![u] = [x \in (DOMAIN he[u]) \cup {v} |-> IF x = v THEN val ELSE he[u][x]]]

\* del halfedge[u][v]
DelHalfedge(he, u, v) ==
    [he EXCEPT ![u] = [x \in (DOMAIN he[u]) \ {v} |-> he[u][x]]]

\* ------------------------------------------------------------ Mesh primitives
\* The Mesh class is not among the sources at hand; its primitives follow
\* section 4.1 of the specification and the way split.py uses them: add_face
\* is called on loops whose half-edges still belong to the face about to be
\* deleted (lines 161-164, 210-213), so it overwrites the index.
\* The empty mesh.
EmptyMesh ==
    [vertex |-> {}, face |-> <<>>, halfedge |-> <<>>,
     max_int_key |-> -1, max_int_fkey |-> -1]

\* Mesh.add_vertex(): a fresh key, an empty halfedge dictionary for it.
AddVertex(m) ==
    LET key == m.max_int_key + 1
    IN  [mesh |-> [m EXCEPT !.vertex = m.vertex \cup {key},
                            !.halfedge = [x \in (DOMAIN m.halfedge) \cup {key} |->
                                            IF x = key THEN <<>> ELSE m.halfedge[x]],
                            !.max_int_key = key],
         key  |-> key]

\* The loop of add_face over the consecutive pairs of the face, from pair k
\* on: halfedge[u][v] = fkey, and (v, u) is recorded as a boundary half-edge
\* when it is not in the index yet.
RECURSIVE CycleHalfedges(_, _, _, _)
CycleHalfedges(he, vs, fkey, k) ==
    IF k > Len(vs) THEN he
    ELSE LET u   == vs[k]
             v   == vs[(k % Len(vs)) + 1]
             he1 == SetHalfedge(he, u, v, fkey)
             he2 == IF u \in DOMAIN he1[v] THEN he1 ELSE SetHalfedge(he1, v, u, None)
         IN  CycleHalfedges(he2, vs, fkey, k + 1)

\* Mesh.add_face(vertices): a closing duplicate of the first vertex is
\* dropped; a loop of fewer than three vertices is not registered and no key
\* is returned; otherwise the loop is stored under a fresh key and its
\* half-edges are entered in the index.
AddFace(m, vertices) ==
    LET vs == IF Len(vertices) > 1 /\ vertices[Len(vertices)] = vertices[1]
              THEN SubSeq(vertices, 1, Len(vertices) - 1)
              ELSE vertices
    IN  IF Len(vs) < 3
        THEN [mesh |-> m, key |-> None]
        ELSE LET fkey == m.max_int_fkey + 1
             IN  [mesh |-> [m EXCEPT !.face = [f \in (DOMAIN m.face) \cup {fkey} |->
                                                 IF f = fkey THEN vs ELSE m.face[f]],
                                     !.halfedge = CycleHalfedges(m.halfedge, vs, fkey, 1),
                                     !.max_int_fkey = fkey],
                  key  |-> fkey]

\* del self.face[fkey]
DelFace(m, fkey) ==
    [m EXCEPT !.face = [f \in (DOMAIN m.face) \ {fkey} |-> m.face[f]]]

\* ------------------------------------------------------- results of a call
Raise(m)        == [mesh |-> m, status |-> "error", ret |-> <<>>]
ReturnNone(m)   == [mesh |-> m, status |-> "none",  ret |-> <<>>]
Return(m, vals) == [mesh |-> m, status |-> "ok",    ret |-> vals]

\* ------------------------------------------------------------ mesh_split_edge
\* Mutant of TooLarge: the comparison is strict, so t = 1.0 is let through.
TooLargeStrict(t) == t > TScale

\* Lines 45 and 133: if t <= 0.0
TooSmall(t) == t <= 0

\* Lines 47 and 135: if t >= 1.0
TooLarge(t) == t >= TScale

\* Mutant of SplitHalfedge: the old half-edge (a, b) is not deleted.
SplitHalfedgeKeepsOld(he, a, b, w, fkey) ==
    SetHalfedge(SetHalfedge(he, a, w, fkey), w, b, fkey)

\* Mutant of SplitHalfedge: (a, b) is deleted and nothing is entered for w.
SplitHalfedgeOnlyDeletes(he, a, b, w, fkey) ==
    DelHalfedge(he, a, b)

\* Mutant of SplitHalfedge: (a, b) is replaced by (a, w) only, (w, b) is not
\* entered.
SplitHalfedgeFirstHalf(he, a, b, w, fkey) ==
    DelHalfedge(SetHalfedge(he, a, w, fkey), a, b)

\* Lines 65-68 and 75-78: (a, b) is replaced by (a, w) and (w, b).
SplitHalfedge(he, a, b, w, fkey) ==
    DelHalfedge(SetHalfedge(SetHalfedge(he, a, w, fkey), w, b, fkey), a, b)

\* Mutant of CanSplice: position 0 is taken for "not found", so the call
\* fails after its first changes when b is the first entry of the loop.
CanSpliceNotFirst(m, fkey, b) ==
    fkey \in DOMAIN m.face /\ ListIndex(m.face[fkey], b) > 0

\* Lines 72 and 82: self.face[fkey].index(b) finds a value (no KeyError on
\* the face, no ValueError on the vertex).
CanSplice(m, fkey, b) ==
    fkey \in DOMAIN m.face /\ ListIndex(m.face[fkey], b) # None

\* Mutant of SpliceFace: w is inserted after b instead of before it.
SpliceFaceAfter(m, fkey, b, w) ==
    [m EXCEPT !.face[fkey] = ListInsert(m.face[fkey], ListIndex(m.face[fkey], b) + 1, w)]

\* Mutant of SpliceFace: the face is looked up by the vertex b (some face
\* that holds b) instead of by the key the half-edge gave.
SpliceFaceByVertex(m, fkey, b, w) ==
    LET g == CHOOSE f \in DOMAIN m.face : ListHas(m.face[f], b)
    IN  [m EXCEPT !.face[g] = ListInsert(m.face[g], ListIndex(m.face[g], b), w)]

\* Lines 70-73 and 80-83: w is inserted in the loop of fkey before vertex b.
SpliceFace(m, fkey, b, w) ==
    [m EXCEPT !.face[fkey] = ListInsert(m.face[fkey], ListIndex(m.face[fkey], b), w)]

\* Mutant of IsSkipped: the split is skipped only when both sides have no
\* face.
IsSkippedBothSides(allow_boundary, fkey_uv, fkey_vu) ==
    ~allow_boundary /\ (fkey_uv = None /\ fkey_vu = None)

\* Lines 55-56 and 143-144: the edge is on the boundary and boundary splits
\* are not allowed.
IsSkipped(allow_boundary, fkey_uv, fkey_vu) ==
    ~allow_boundary /\ (fkey_uv = None \/ fkey_vu = None)

MeshSplitEdge(m, u, v, t, allow_boundary) ==
    IF TooSmall(t) THEN Raise(m)
    ELSE IF TooLarge(t) THEN Raise(m)
    ELSE IF ~HasHalfedge(m, u, v) THEN Raise(m)
    ELSE IF ~HasHalfedge(m, v, u) THEN Raise(m)
    ELSE
      LET fkey_uv == m.halfedge[u][v]
          fkey_vu == m.halfedge[v][u]
      IN
      IF IsSkipped(allow_boundary, fkey_uv, fkey_vu) THEN ReturnNone(m)
      ELSE
        LET a  == AddVertex(m)
            w  == a.key
            m1 == [a.mesh EXCEPT !.halfedge = SplitHalfedge(a.mesh.halfedge, u, v, w, fkey_uv)]
        IN
        IF fkey_uv # None /\ ~CanSplice(m1, fkey_uv, v) THEN Raise(m1)
        ELSE
          LET m2 == IF fkey_uv # None THEN SpliceFace(m1, fkey_uv, v, w) ELSE m1
              m3 == [m2 EXCEPT !.halfedge = SplitHalfedge(m2.halfedge, v, u, w, fkey_vu)]
          IN  IF fkey_vu # None /\ ~CanSplice(m3, fkey_vu, u) THEN Raise(m3)
              ELSE Return(IF fkey_vu # None THEN SpliceFace(m3, fkey_vu, u, w) ELSE m3, <<w>>)

\* --------------------------------------------------------- trimesh_split_edge
\* Lines 153-164 and 166-177, one side (a, b) of the edge with the new vertex
\* w: a boundary side gets two boundary half-edges; a face side is replaced
\* by the triangles (a, w, o) and (w, b, o), o being the entry of the loop
\* before a.  ok is FALSE when the face or the vertex is missing (KeyError or
\* ValueError in the source, raised before the side is changed).
\* Mutant of Opposite: the entry after a is taken instead of the entry
\* before it.
OppositeAfter(loop, a) == ListItem(loop, (ListIndex(loop, a) + 1) % Len(loop))

\* Lines 160 and 173: face[face.index(a) - 1], the entry of the loop before a
\* (index -1 is the last entry).
Opposite(loop, a) == ListItem(loop, ListIndex(loop, a) - 1)

\* Mutant of TrimeshSplitSide: the half-edge (a, b) of the deleted face is
\* left in the index.
TrimeshSplitSideKeepsHalfedge(m, a, b, w, fkey) ==
    IF fkey = None
    THEN [ok |-> TRUE, mesh |-> [m EXCEPT !.halfedge = SplitHalfedge(m.halfedge, a, b, w, None)]]
    ELSE IF ~CanSplice(m, fkey, a)
    THEN [ok |-> FALSE, mesh |-> m]
    ELSE LET loop == m.face[fkey]
             o    == Opposite(loop, a)
             m1   == AddFace(m, <<a, w, o>>).mesh
             m2   == AddFace(m1, <<w, b, o>>).mesh
         IN  [ok |-> TRUE, mesh |-> DelFace(m2, fkey)]

TrimeshSplitSide(m, a, b, w, fkey) ==
    IF fkey = None
    THEN [ok |-> TRUE, mesh |-> [m EXCEPT !.halfedge = SplitHalfedge(m.halfedge, a, b, w, None)]]
    ELSE IF ~CanSplice(m, fkey, a)
    THEN [ok |-> FALSE, mesh |-> m]
    ELSE LET loop == m.face[fkey]
             o    == Opposite(loop, a)
             m1   == AddFace(m, <<a, w, o>>).mesh
             m2   == AddFace(m1, <<w, b, o>>).mesh
             m3   == [m2 EXCEPT !.halfedge = DelHalfedge(m2.halfedge, a, b)]
         IN  [ok |-> TRUE, mesh |-> DelFace(m3, fkey)]

TrimeshSplitEdge(m, u, v, t, allow_boundary) ==
    IF TooSmall(t) THEN Raise(m)
    ELSE IF TooLarge(t) THEN Raise(m)
    ELSE IF ~HasHalfedge(m, u, v) THEN Raise(m)
    ELSE IF ~HasHalfedge(m, v, u) THEN Raise(m)
    ELSE
      LET fkey_uv == m.halfedge[u][v]
          fkey_vu == m.halfedge[v][u]
      IN
      IF IsSkipped(allow_boundary, fkey_uv, fkey_vu) THEN ReturnNone(m)
      ELSE
        LET a  == AddVertex(m)
            w  == a.key
            uv == TrimeshSplitSide(a.mesh, u, v, w, fkey_uv)
        IN
        IF ~uv.ok THEN Raise(uv.mesh)
        ELSE LET vu == TrimeshSplitSide(uv.mesh, v, u, w, fkey_vu)
             IN  IF ~vu.ok THEN Raise(vu.mesh) ELSE Return(vu.mesh, <<w>>)

\* ------------------------------------------------------------ mesh_split_face
\* Line 200: the test for split vertices that are neighbours.
AreNeighbours(i, j) == i + 1 = j

\* Mutant of SplitLoops: the sub-loop that runs over the end of the stored
\* list is not continued from its start.
SplitLoopsNoWrap(loop, i, j) ==
    IF j > i
    THEN <<ListSlice(loop, i, j + 1), ListFrom(loop, j)>>
    ELSE <<ListFrom(loop, i), ListSlice(loop, j, i + 1)>>

\* Lines 203-208: the two sub-loops cut at positions i (of u) and j (of v).
SplitLoops(loop, i, j) ==
    IF j > i
    THEN <<ListSlice(loop, i, j + 1), ListFrom(loop, j) \o ListSlice(loop, 0, i + 1)>>
    ELSE <<ListFrom(loop, i) \o ListSlice(loop, 0, j + 1), ListSlice(loop, j, i + 1)>>

MeshSplitFace(m, fkey, u, v) ==
    IF fkey \notin DOMAIN m.face THEN Raise(m)
    ELSE IF ~ListHas(m.face[fkey], u) \/ ~ListHas(m.face[fkey], v) THEN Raise(m)
    ELSE
      LET loop == m.face[fkey]
          i    == ListIndex(loop, u)
          j    == ListIndex(loop, v)
      IN
      IF AreNeighbours(i, j) THEN Raise(m)
      ELSE
        LET fg == SplitLoops(loop, i, j)
            af == AddFace(m, fg[1])
            ag == AddFace(af.mesh, fg[2])
        IN  Return(DelFace(ag.mesh, fkey), <<af.key, ag.key>>)

\* ----------------------------------------------------------------- the state
\* vertex, face, halfedge, max_int_key, max_int_fkey: the fields of the mesh.
\* call: the last call, its outcome and the mesh it was made on.
\* history: the kinds of degenerate splits performed so far (see Degenerate).
\* analysis: the adjacency dictionary handed to the connectivity functions of
\*           components.py and what the last of them returned.
\* matrix: the last call of a function of matrices.py on the mesh as it is,
\*         and its outcome.
\* client: the fields of the rpc Client, its worker and the position of the
\*         script that uses it.
\* service: the last request handed to Service._dispatch and its outcome.
VARIABLES vertex, face, halfedge, max_int_key, max_int_fkey, call, history,
          analysis, matrix, client, service

vars == <<vertex, face, halfedge, max_int_key, max_int_fkey, call, history,
          analysis, matrix, client, service>>

\* The mesh held by the variables.
Mesh ==
    [vertex |-> vertex, face |-> face, halfedge |-> halfedge,
     max_int_key |-> max_int_key, max_int_fkey |-> max_int_fkey]

\* Mesh.from_vertices_and_faces: n vertices, then the faces in order.
RECURSIVE AddVertices(_, _)
AddVertices(m, n) == IF n = 0 THEN m ELSE AddVertices(AddVertex(m).mesh, n - 1)

RECURSIVE AddFaces(_, _, _)
AddFaces(m, faces, k) ==
    IF k > Len(faces) THEN m ELSE AddFaces(AddFace(m, faces[k]).mesh, faces, k + 1)

FromVerticesAndFaces(n, faces) == AddFaces(AddVertices(EmptyMesh, n), faces, 1)

\* The meshes the runs start from: a quad; two triangles on a common edge; a
\* pentagon; two triangles on the same three vertices (a closed surface of
\* two faces) next to a vertex that is in no face; a quad and a triangle
\* that joins two opposite corners of the quad.
InitialMeshes ==
    { FromVerticesAndFaces(4, << <<0, 1, 2, 3>> >>),
      FromVerticesAndFaces(4, << <<0, 1, 2>>, <<0, 2, 3>> >>),
      FromVerticesAndFaces(5, << <<0, 1, 2, 3, 4>> >>),
      FromVerticesAndFaces(4, << <<0, 1, 2>>, <<1, 0, 2>> >>),
      FromVerticesAndFaces(5, << <<0, 1, 2, 3>>, <<0, 2, 4>> >>) }

\* No connectivity function is in use: nothing was handed to one.
NoAnalysis ==
    [adjacency |-> <<>>, op |-> "none", root |-> None, components |-> <<>>,
     connected |-> FALSE]

\* No function of matrices.py was called on the mesh as it is.
NoMatrix == [op |-> "none", u |-> None, v |-> None, status |-> "none", ret |-> <<>>]

\* No rpc client is in use: none was constructed.
NoClient ==
    [pc |-> "none", process |-> "none", worker |-> "none", count |-> 0,
     success |-> FALSE, pings |-> 0, last_ping |-> "none", start |-> "none",
     funcname |-> "none", last |-> "none", func |-> "none", accessed |-> "none",
     held |-> "none", invoked |-> "none", through |-> "none", expected |-> "none"]

\* No request was handed to a service.
NoService == [name |-> "none", args |-> <<>>, status |-> "none", ret |-> <<>>]

\* The record of the last call: its arguments, its outcome and the mesh it
\* was made on.
CallRecord(op, fkey, u, v, t, allow, r, m) ==
    [op |-> op, fkey |-> fkey, u |-> u, v |-> v, t |-> t, allow_boundary |-> allow,
     status |-> r.status, ret |-> r.ret, pre |-> m]

SetMesh(m) ==
    /\ vertex' = m.vertex
    /\ face' = m.face
    /\ halfedge' = m.halfedge
    /\ max_int_key' = m.max_int_key
    /\ max_int_fkey' = m.max_int_fkey

Init ==
    \E m \in InitialMeshes :
        /\ vertex = m.vertex
        /\ face = m.face
        /\ halfedge = m.halfedge
        /\ max_int_key = m.max_int_key
        /\ max_int_fkey = m.max_int_fkey
        /\ call = CallRecord("init", None, None, None, 5, FALSE, ReturnNone(m), m)
        /\ history = {}
        /\ analysis = NoAnalysis
        /\ matrix = NoMatrix
        /\ client = NoClient
        /\ service = NoService

\* Vertex keys handed to the operations: the keys of the mesh and one key
\* that is not in it.
VertexArgs == vertex \cup {max_int_key + 1}

\* Face keys handed to the operations: the keys of the mesh and one key that
\* is not in it.
FaceArgs == (DOMAIN face) \cup {max_int_fkey + 1}

\* The cyclic successor of x in a loop that holds x.
LoopNext(loop, x) == loop[((ListIndex(loop, x) + 1) % Len(loop)) + 1]

\* u and v are next to each other in the cyclic loop (or are the same vertex).
LoopAdjacent(loop, u, v) == u = v \/ LoopNext(loop, u) = v \/ LoopNext(loop, v) = u

\* The face on (a, b), when there is one, is a triangle.
SideIsTriangle(m, a, b) ==
    (HasHalfedge(m, a, b) /\ m.halfedge[a][b] \in DOMAIN m.face)
        => Len(m.face[m.halfedge[a][b]]) = 3

\* trimesh_split_edge is for triangle meshes: its callers hand it edges whose
\* adjacent faces are triangles.
CallerGuaranteesTriangles(m, u, v) == SideIsTriangle(m, u, v) /\ SideIsTriangle(m, v, u)

\* The kinds of degenerate split a performed call is:
\*   "adjacent"        mesh_split_face at two vertices that are next to each
\*                     other in the loop (or at one vertex twice);
\*   "joined"          mesh_split_face at two vertices that a half-edge of
\*                     the index already joins;
\*   "shared_opposite" trimesh_split_edge on an edge whose two triangles have
\*                     the same third vertex.
Degenerate(op, m, fkey, u, v) ==
    IF op = "mesh_split_face"
    THEN (IF LoopAdjacent(m.face[fkey], u, v) THEN {"adjacent"} ELSE {})
         \cup (IF HasHalfedge(m, u, v) \/ HasHalfedge(m, v, u) THEN {"joined"} ELSE {})
    ELSE IF op = "trimesh_split_edge"
              /\ m.halfedge[u][v] # None /\ m.halfedge[v][u] # None
              /\ Opposite(m.face[m.halfedge[u][v]], u) = Opposite(m.face[m.halfedge[v][u]], v)
    THEN {"shared_opposite"}
    ELSE {}

\* The call op(fkey, u, v, t, allow) with outcome r is made on the mesh; an
\* exception ends the run of the calling script (see Running).
Call(op, fkey, u, v, t, allow, r) ==
    /\ SetMesh(r.mesh)
    /\ call' = CallRecord(op, fkey, u, v, t, allow, r, Mesh)
    /\ history' = IF r.status = "ok" THEN history \cup Degenerate(op, Mesh, fkey, u, v)
                  ELSE history
    /\ UNCHANGED <<analysis, matrix, client, service>>

\* No exception has ended the run.
Running == call.status # "error"

CallMeshSplitEdge ==
    /\ Running
    /\ Cardinality(vertex) < MaxVertices
    /\ \E u \in VertexArgs, v \in VertexArgs, t \in TValues, allow \in BOOLEAN :
          Call("mesh_split_edge", None, u, v, t, allow, MeshSplitEdge(Mesh, u, v, t, allow))

CallTrimeshSplitEdge ==
    /\ Running
    /\ Cardinality(vertex) < MaxVertices
    /\ max_int_fkey + 1 < MaxFaceKeys
    /\ \E u \in VertexArgs, v \in VertexArgs, t \in TValues, allow \in BOOLEAN :
          /\ CallerGuaranteesTriangles(Mesh, u, v)
          /\ Call("trimesh_split_edge", None, u, v, t, allow, TrimeshSplitEdge(Mesh, u, v, t, allow))

CallMeshSplitFace ==
    /\ Running
    /\ max_int_fkey + 1 < MaxFaceKeys
    /\ \E fkey \in FaceArgs, u \in VertexArgs, v \in VertexArgs :
          Call("mesh_split_face", fkey, u, v, 5, FALSE, MeshSplitFace(Mesh, fkey, u, v))

Next ==
    \/ CallMeshSplitEdge
    \/ CallTrimeshSplitEdge
    \/ CallMeshSplitFace

Spec == Init /\ [][Next]_vars

\* ------------------------------------------------------ reading the last call
\* The mesh the last call was made on.
Pre == call.pre

\* The last call was op and returned a value.
Performed(op) == call.op = op /\ call.status = "ok"

\* The value returned by a performed edge split: the inserted vertex.
W == call.ret[1]

\* The loop s without the vertex x.
Without(s, x) == SelectSeq(s, LAMBDA e : e # x)

\* a and b are the same cyclic loop (equal up to rotation).
IsRotation(a, b) ==
    /\ Len(a) = Len(b)
    /\ \E k \in 0..(Len(a) - 1) : \A i \in 1..Len(a) : a[i] = b[((i - 1 + k) % Len(a)) + 1]

\* The arc of the cyclic loop from a to b, both included.
RECURSIVE Arc(_, _, _)
Arc(loop, a, b) == IF a = b THEN <<a>> ELSE <<a>> \o Arc(loop, LoopNext(loop, a), b)

\* Every consecutive pair of every face loop maps to that face in the
\* halfedge index.
LoopsAreIndexed(m) ==
    \A f \in DOMAIN m.face :
        \A k \in 1..Len(m.face[f]) :
            LET a == m.face[f][k]
                b == m.face[f][(k % Len(m.face[f])) + 1]
            IN  HasHalfedge(m, a, b) /\ m.halfedge[a][b] = f

\* The start meshes satisfy the invariant the claims start from.
StartIsIndexed == \A m \in InitialMeshes : LoopsAreIndexed(m)

C1_LoopsIndexedAfterProperSplits ==
    (history = {}) => LoopsAreIndexed(Mesh)

\* A proper face split made on a mesh that an edge split had already changed
\* (a state the supporting fact for C1 is about).
C1_ProperSequenceReached ==
    /\ history = {}
    /\ Performed("mesh_split_face")
    /\ Pre.max_int_key = 4
    /\ Len(Pre.face[call.fkey]) = 5
    /\ Cardinality(DOMAIN Pre.face) = 1

\* C3: after mesh_split_edge(u, v) returned w, in the loop of the face that
\* was on (u, v) w follows u and precedes v, in the loop of the face that was
\* on (v, u) w follows v and precedes u, and each loop without w is the loop
\* as it was.
C3_SplitVertexBetweenEnds ==
    Performed("mesh_split_edge") =>
        LET fkey_uv == Pre.halfedge[call.u][call.v]
            fkey_vu == Pre.halfedge[call.v][call.u]
        IN  /\ fkey_uv # None =>
                 /\ LoopNext(face[fkey_uv], call.u) = W
                 /\ LoopNext(face[fkey_uv], W) = call.v
                 /\ Without(face[fkey_uv], W) = Pre.face[fkey_uv]
            /\ fkey_vu # None =>
                 /\ LoopNext(face[fkey_vu], call.v) = W
                 /\ LoopNext(face[fkey_vu], W) = call.u
                 /\ Without(face[fkey_vu], W) = Pre.face[fkey_vu]

\* C3 witness: an interior edge split whose pair (u, v) wraps around the end
\* of the stored loop (u is its last entry, v its first).
C3_Witness ==
    /\ Performed("mesh_split_edge")
    /\ Pre.halfedge[call.u][call.v] # None
    /\ Pre.halfedge[call.v][call.u] # None
    /\ LET loop == Pre.face[Pre.halfedge[call.u][call.v]]
       IN  loop[1] = call.v /\ loop[Len(loop)] = call.u

\* C4: after mesh_split_edge(u, v) returned w, (u, v) and (v, u) are gone
\* from the index, (u, w) and (w, v) carry what (u, v) carried, (v, w) and
\* (w, u) carry what (v, u) carried, and every other entry is as it was.
C4_HalfedgesRewired ==
    Performed("mesh_split_edge") =>
        LET u == call.u
            v == call.v
            changed == {<<u, v>>, <<v, u>>, <<u, W>>, <<W, v>>, <<v, W>>, <<W, u>>}
        IN  /\ ~HasHalfedge(Mesh, u, v)
            /\ ~HasHalfedge(Mesh, v, u)
            /\ HasHalfedge(Mesh, u, W) /\ halfedge[u][W] = Pre.halfedge[u][v]
            /\ HasHalfedge(Mesh, W, v) /\ halfedge[W][v] = Pre.halfedge[u][v]
            /\ HasHalfedge(Mesh, v, W) /\ halfedge[v][W] = Pre.halfedge[v][u]
            /\ HasHalfedge(Mesh, W, u) /\ halfedge[W][u] = Pre.halfedge[v][u]
            /\ \A a \in vertex, b \in vertex :
                  <<a, b>> \notin changed =>
                      /\ HasHalfedge(Mesh, a, b) <=> HasHalfedge(Pre, a, b)
                      /\ HasHalfedge(Mesh, a, b) => halfedge[a][b] = Pre.halfedge[a][b]

\* C4 witness: a boundary edge split with allow_boundary, one side a face and
\* the other none.
C4_Witness ==
    /\ Performed("mesh_split_edge")
    /\ Pre.halfedge[call.u][call.v] # None
    /\ Pre.halfedge[call.v][call.u] = None

\* C7: a successful mesh_split_edge returns a vertex that was not in the
\* mesh, adds exactly that vertex, keeps the face keys, and keeps the loop of
\* every face other than the faces that were on (u, v) and (v, u).
C7_EdgeSplitFrame ==
    Performed("mesh_split_edge") =>
        /\ W \notin Pre.vertex
        /\ vertex = Pre.vertex \cup {W}
        /\ Cardinality(vertex) = Cardinality(Pre.vertex) + 1
        /\ DOMAIN face = DOMAIN Pre.face
        /\ \A f \in DOMAIN face :
              f \notin {Pre.halfedge[call.u][call.v], Pre.halfedge[call.v][call.u]}
                  => face[f] = Pre.face[f]

\* C7 witness: an edge split in a mesh with a face that is not on the edge
\* and shares a vertex with it.
C7_Witness ==
    /\ Performed("mesh_split_edge")
    /\ \E f \in DOMAIN Pre.face :
          /\ f \notin {Pre.halfedge[call.u][call.v], Pre.halfedge[call.v][call.u]}
          /\ ListHas(Pre.face[f], call.v)

\* The mesh is what it was before the last call.
MeshUnchanged == vertex = Pre.vertex /\ face = Pre.face /\ halfedge = Pre.halfedge

\* The last call was an edge split (general or triangle).
EdgeSplitCalled == call.op \in {"mesh_split_edge", "trimesh_split_edge"}

\* The last call was an edge split of an edge that has both directions in
\* the index and no face on at least one of them.
BoundaryEdgeCalled ==
    /\ EdgeSplitCalled
    /\ HasHalfedge(Pre, call.u, call.v)
    /\ HasHalfedge(Pre, call.v, call.u)
    /\ (Pre.halfedge[call.u][call.v] = None \/ Pre.halfedge[call.v][call.u] = None)

C5_BoundarySkip ==
    (BoundaryEdgeCalled /\ ~call.allow_boundary) =>
        (call.status = "none" /\ MeshUnchanged)

\* C5 (amended): for 0.0 < t < 1.0, an edge split called with allow_boundary
\* false on an edge with no face on one side returns None without raising
\* and leaves the vertex table, the face table and the halfedge index
\* unchanged.
C5_BoundarySkipForValidT ==
    (BoundaryEdgeCalled /\ ~call.allow_boundary /\ 0 < call.t /\ call.t < TScale) =>
        (call.status = "none" /\ MeshUnchanged)

\* C5 witness: trimesh_split_edge skips an edge with a triangle on one side
\* only.
C5_Witness ==
    /\ call.op = "trimesh_split_edge"
    /\ BoundaryEdgeCalled
    /\ ~call.allow_boundary
    /\ call.t = 5
    /\ Pre.halfedge[call.v][call.u] # None

\* C6: the edge splits fail for every t <= 0.0 and every t >= 1.0, whatever
\* the edge and allow_boundary, and perform a split only for 0.0 < t < 1.0.
C6_TOutsideOpenIntervalFails ==
    EdgeSplitCalled =>
        /\ (call.t <= 0 \/ call.t >= TScale) => (call.status = "error")
        /\ (call.status = "ok") => (0 < call.t /\ call.t < TScale)

\* C6 witness: t is exactly 0.0 on an interior edge with allow_boundary true,
\* and the call fails.
C6_Witness ==
    /\ call.op = "mesh_split_edge"
    /\ call.t = 0
    /\ call.allow_boundary
    /\ call.status = "error"
    /\ HasHalfedge(Pre, call.u, call.v)
    /\ HasHalfedge(Pre, call.v, call.u)
    /\ Pre.halfedge[call.u][call.v] # None
    /\ Pre.halfedge[call.v][call.u] # None

\* The last call was a performed trimesh_split_edge on an edge with the
\* triangle (u, v, o) on one side and the triangle (v, u, p) on the other.
TrianglesSplit(o, p) ==
    /\ Performed("trimesh_split_edge")
    /\ Pre.halfedge[call.u][call.v] # None
    /\ Pre.halfedge[call.v][call.u] # None
    /\ IsRotation(Pre.face[Pre.halfedge[call.u][call.v]], <<call.u, call.v, o>>)
    /\ IsRotation(Pre.face[Pre.halfedge[call.v][call.u]], <<call.v, call.u, p>>)

\* C8: trimesh_split_edge(u, v) on the triangles (u, v, o) and (v, u, p)
\* removes both, leaves in their place exactly the four new triangles
\* (u, w, o), (w, v, o), (v, w, p), (w, u, p), each up to rotation, keeps
\* every other face, adds two to the face count and removes (u, v) and
\* (v, u) from the index.
C8_TrianglesReplaced ==
    \A o \in Pre.vertex, p \in Pre.vertex :
        TrianglesSplit(o, p) =>
            LET u   == call.u
                v   == call.v
                old == {Pre.halfedge[u][v], Pre.halfedge[v][u]}
                new == (DOMAIN face) \ (DOMAIN Pre.face)
            IN  /\ old \cap DOMAIN face = {}
                /\ (DOMAIN Pre.face) \ old \subseteq DOMAIN face
                /\ \A f \in (DOMAIN Pre.face) \ old : face[f] = Pre.face[f]
                /\ Cardinality(DOMAIN face) = Cardinality(DOMAIN Pre.face) + 2
                /\ Cardinality(new) = 4
                /\ \E f1 \in new, f2 \in new, f3 \in new, f4 \in new :
                      /\ new = {f1, f2, f3, f4}
                      /\ IsRotation(face[f1], <<u, W, o>>)
                      /\ IsRotation(face[f2], <<W, v, o>>)
                      /\ IsRotation(face[f3], <<v, W, p>>)
                      /\ IsRotation(face[f4], <<W, u, p>>)
                /\ ~HasHalfedge(Mesh, u, v)
                /\ ~HasHalfedge(Mesh, v, u)

\* C8 witness: the split of the edge shared by two triangles with different
\* third vertices, u being the first entry of its stored loop (so the third
\* vertex is found at index -1).
C8_Witness ==
    \E o \in Pre.vertex, p \in Pre.vertex :
        /\ TrianglesSplit(o, p)
        /\ o # p
        /\ Pre.face[Pre.halfedge[call.u][call.v]][1] = call.u

\* The last call was mesh_split_face on a face of the mesh.
FaceSplitCalled == call.op = "mesh_split_face" /\ call.fkey \in DOMAIN Pre.face

\* The loop of the face the last mesh_split_face was called on.
SplitLoop == Pre.face[call.fkey]

\* u and v of the last call are two vertices of the loop that are not next to
\* each other in it.
SplitAtNonAdjacent ==
    /\ ListHas(SplitLoop, call.u)
    /\ ListHas(SplitLoop, call.v)
    /\ ~LoopAdjacent(SplitLoop, call.u, call.v)

\* C9: mesh_split_face fails, and neither creates nor deletes a face, when u
\* or v is not in the loop and when u and v are next to each other in the
\* cyclic loop (v after u, u after v, last and first entry in either order).
C9_BadSplitVerticesRejected ==
    (/\ FaceSplitCalled
     /\ call.u # call.v
     /\ \/ ~ListHas(SplitLoop, call.u)
        \/ ~ListHas(SplitLoop, call.v)
        \/ LoopAdjacent(SplitLoop, call.u, call.v))
        => (call.status = "error" /\ DOMAIN face = DOMAIN Pre.face)

MaxKeys == 3

\* A set as a sequence, smallest element first.
RECURSIVE SetToSeq(_)
SetToSeq(S) ==
    IF S = {} THEN <<>>
    ELSE LET x == CHOOSE y \in S : \A z \in S : y <= z
         IN  <<x>> \o SetToSeq(S \ {x})

\* compas.topology.breadth_first_traverse(adjacency, root), from the state of
\* its loop: the first node of the queue is taken, its neighbours that were
\* not visited are queued and marked; the visited set is returned when the
\* queue is empty.  The call starts from the queue <<root>> and the visited
\* set {root}.
RECURSIVE BreadthFirstTraverse(_, _, _)
BreadthFirstTraverse(adjacency, tovisit, visited) ==
    IF tovisit = <<>> THEN visited
    ELSE LET node == Head(tovisit)
             new  == adjacency[node] \ visited
         IN  BreadthFirstTraverse(adjacency, Tail(tovisit) \o SetToSeq(new),
                                  visited \cup new)

\* Mutant of Traverse: only the root and its neighbours are visited.
TraverseNeighbours(adjacency, root) == {root} \cup adjacency[root]

\* Line 39: visited = breadth_first_traverse(adjacency, root)
Traverse(adjacency, root) == BreadthFirstTraverse(adjacency, <<root>>, {root})

\* Mutant of Remaining: one visited key leaves the pool, the others stay.
RemainingDropsOne(tovisit, visited) ==
    tovisit \ {CHOOSE x \in tovisit \cap visited : TRUE}

\* Line 41: tovisit -= visited
Remaining(tovisit, visited) == tovisit \ visited

\* Lines 38-42, the loop of connected_components from the pool tovisit and
\* the components found so far.  set.pop() gives any key of the pool, so the
\* loop has one outcome for every choice of roots: the value is the set of
\* the lists the loop can end with.
RECURSIVE ComponentsLoop(_, _, _)
ComponentsLoop(adjacency, tovisit, components) ==
    IF tovisit = {} THEN {components}
    ELSE UNION { LET visited == Traverse(adjacency, root)
                 IN  ComponentsLoop(adjacency, Remaining(tovisit, visited),
                                    Append(components, visited))
                 : root \in tovisit }

\* connected_components(adjacency): the lists it can return.
ConnectedComponents(adjacency) == ComponentsLoop(adjacency, DOMAIN adjacency, <<>>)

\* Mutant of MeshIsConnected: true as soon as the traversal visited a vertex.
MeshIsConnectedAnyVisited(keys, adjacency, any_vertex) ==
    IF keys = {} THEN FALSE
    ELSE Cardinality(BreadthFirstTraverse(adjacency, <<any_vertex>>, {any_vertex})) >= 1

\* mesh_is_connected(mesh) for a mesh with the vertices keys and the
\* adjacency dictionary adjacency, when get_any_vertex gives any_vertex.
MeshIsConnected(keys, adjacency, any_vertex) ==
    IF keys = {} THEN FALSE
    ELSE Cardinality(BreadthFirstTraverse(adjacency, <<any_vertex>>, {any_vertex}))
             = Cardinality(keys)

\* network_is_connected(network), likewise.
NetworkIsConnected(keys, adjacency, any_vertex) ==
    IF keys = {} THEN FALSE
    ELSE Cardinality(BreadthFirstTraverse(adjacency, <<any_vertex>>, {any_vertex}))
             = Cardinality(keys)

\* mesh.adjacency: the keys of the half-edge index, each with the keys of its
\* own dictionary.
MeshAdjacency(m) == [u \in DOMAIN m.halfedge |-> DOMAIN m.halfedge[u]]

\* Two triangles that share no vertex.
TwoDisjointTriangles == FromVerticesAndFaces(6, << <<0, 1, 2>>, <<3, 4, 5>> >>)

\* The adjacency dictionaries on the keys 0..n-1 whose neighbour lists name
\* keys of the dictionary other than their own.
Adjacencies(n) ==
    { a \in [0..(n - 1) -> SUBSET (0..(n - 1))] : \A u \in 0..(n - 1) : u \notin a[u] }

\* The dictionaries handed to the connectivity functions: every dictionary of
\* at most MaxKeys keys, and the adjacency of the meshes above.
AdjacencyArgs ==
    UNION { Adjacencies(n) : n \in 0..MaxKeys }
        \cup { MeshAdjacency(m) : m \in InitialMeshes \cup {TwoDisjointTriangles} }

\* Every neighbour has the key among its own neighbours.
IsSymmetric(adjacency) ==
    \A u \in DOMAIN adjacency : \A v \in adjacency[u] : u \in adjacency[v]

InitComponents ==
    /\ vertex = EmptyMesh.vertex
    /\ face = EmptyMesh.face
    /\ halfedge = EmptyMesh.halfedge
    /\ max_int_key = EmptyMesh.max_int_key
    /\ max_int_fkey = EmptyMesh.max_int_fkey
    /\ call = CallRecord("init", None, None, None, 5, FALSE, ReturnNone(EmptyMesh), EmptyMesh)
    /\ history = {}
    /\ matrix = NoMatrix
    /\ client = NoClient
    /\ service = NoService
    /\ \E a \in AdjacencyArgs : analysis = [NoAnalysis EXCEPT !.adjacency = a, !.op = "init"]

MeshVars == <<vertex, face, halfedge, max_int_key, max_int_fkey, call, history>>

CallConnectedComponents ==
    /\ analysis.op = "init"
    /\ \E components \in ConnectedComponents(analysis.adjacency) :
          analysis' = [analysis EXCEPT !.op = "connected_components",
                                       !.components = components]
    /\ UNCHANGED <<MeshVars, matrix, client, service>>

\* The vertices get_any_vertex can give; none is asked for when the mesh has
\* no vertex.
AnyVertexArgs(keys) == IF keys = {} THEN {None} ELSE keys

CallMeshIsConnected ==
    /\ analysis.op = "init"
    /\ IsSymmetric(analysis.adjacency)
    /\ \E any_vertex \in AnyVertexArgs(DOMAIN analysis.adjacency) :
          analysis' = [analysis EXCEPT
                          !.op = "mesh_is_connected", !.root = any_vertex,
                          !.connected = MeshIsConnected(DOMAIN analysis.adjacency,
                                                        analysis.adjacency, any_vertex)]
    /\ UNCHANGED <<MeshVars, matrix, client, service>>

CallNetworkIsConnected ==
    /\ analysis.op = "init"
    /\ IsSymmetric(analysis.adjacency)
    /\ \E any_vertex \in AnyVertexArgs(DOMAIN analysis.adjacency) :
          analysis' = [analysis EXCEPT
                          !.op = "network_is_connected", !.root = any_vertex,
                          !.connected = NetworkIsConnected(DOMAIN analysis.adjacency,
                                                           analysis.adjacency, any_vertex)]
    /\ UNCHANGED <<MeshVars, matrix, client, service>>

NextComponents ==
    \/ CallConnectedComponents
    \/ CallMeshIsConnected
    \/ CallNetworkIsConnected

SpecComponents == InitComponents /\ [][NextComponents]_vars

\* The keys of the dictionary handed to the connectivity functions.
Keys == DOMAIN analysis.adjacency

\* connected_components has returned.
ComponentsReturned == analysis.op = "connected_components"

\* The components are a partition of the keys: every key is in exactly one of
\* them, none is empty, none holds anything but keys.
IsPartition(components, keys) ==
    /\ \A k \in keys : Cardinality({i \in 1..Len(components) : k \in components[i]}) = 1
    /\ \A i \in 1..Len(components) : components[i] # {} /\ components[i] \subseteq keys

\* C11 as stated: whatever dictionary connected_components is handed, symmetric
\* or not, the components it returns are a partition of the keys.
C11_ComponentsPartitionKeys ==
    ComponentsReturned => IsPartition(analysis.components, Keys)

\* C11: when the neighbour relation of the dictionary is symmetric, the
\* components connected_components returns are a partition of the keys: every
\* key is in exactly one component and no component is empty.
C11_SymmetricComponentsPartitionKeys ==
    (ComponentsReturned /\ IsSymmetric(analysis.adjacency))
        => IsPartition(analysis.components, Keys)

\* connected_components returned two components, one of them of two keys, for
\* a symmetric dictionary.
C11_Witness ==
    /\ ComponentsReturned
    /\ IsSymmetric(analysis.adjacency)
    /\ Len(analysis.components) = 2
    /\ Cardinality(analysis.components[1]) = 2

\* The keys that a path of the adjacency joins to a key of S, S included:
\* neighbours are added until none is new.
RECURSIVE Closure(_, _)
Closure(adjacency, S) ==
    LET T == S \cup UNION { adjacency[x] : x \in S }
    IN  IF T = S THEN S ELSE Closure(adjacency, T)

\* The reachability classes of the adjacency graph.
Classes(adjacency) == { Closure(adjacency, {k}) : k \in DOMAIN adjacency }

\* The components of a list, as a set.
Range(components) == { components[i] : i \in 1..Len(components) }

\* C12: for a symmetric adjacency, connected_components returns after at most
\* one turn of its loop per key, each component it returns is one
\* reachability class of the adjacency graph and there are as many components
\* as classes, whatever roots the pops gave; for two disjoint triangles it
\* returns two components of three vertices each.
C12_ComponentsAreReachabilityClasses ==
    (ComponentsReturned /\ IsSymmetric(analysis.adjacency))
        => /\ Len(analysis.components) <= Cardinality(Keys)
           /\ Range(analysis.components) = Classes(analysis.adjacency)
           /\ Len(analysis.components) = Cardinality(Classes(analysis.adjacency))
           /\ analysis.adjacency = MeshAdjacency(TwoDisjointTriangles)
                 => /\ Len(analysis.components) = 2
                    /\ \A i \in 1..2 : Cardinality(analysis.components[i]) = 3

\* connected_components returned for the two disjoint triangles, the triangle
\* of the last vertex first.
C12_Witness ==
    /\ ComponentsReturned
    /\ analysis.adjacency = MeshAdjacency(TwoDisjointTriangles)
    /\ analysis.components = << {3, 4, 5}, {0, 1, 2} >>

\* One of the two is_connected functions has returned.
IsConnectedReturned == analysis.op \in {"mesh_is_connected", "network_is_connected"}

\* C13: mesh_is_connected and network_is_connected return true exactly when
\* connected_components of the same adjacency returns exactly one component,
\* whichever vertex get_any_vertex gave and whichever roots the pops give; on
\* no vertices they return false.
C13_ConnectedIffOneComponent ==
    IsConnectedReturned
        => /\ \A components \in ConnectedComponents(analysis.adjacency) :
                 analysis.connected <=> (Len(components) = 1)
           /\ Keys = {} => ~analysis.connected

\* mesh_is_connected returned false for the mesh with no vertices.
C13_WitnessEmpty == analysis.op = "mesh_is_connected" /\ Keys = {} /\ ~analysis.connected

\* mesh_is_connected returned true from the last vertex of a mesh of five
\* vertices.
C13_Witness ==
    /\ analysis.op = "mesh_is_connected"
    /\ Cardinality(Keys) = 5
    /\ analysis.root = 4
    /\ analysis.connected

\* ------------------------------------------------------------------ matrices
\* (compas/datastructures/mesh/matrices.py)
\* The entries of the matrices are floats; an entry is modelled in units of
\* 1/Unit, so 1 is Unit and -1/w is -(Unit \div w), which is exact for every
\* neighbour count w from 1 to 6.
Unit == 60

\* mesh.vertices(): the keys in the order of the vertex dictionary, the order
\* in which they were issued.
Vertices(m) == SetToSeq(m.vertex)

\* mesh.key_index(): each key with its position in mesh.vertices().
KeyIndex(m) == [key \in m.vertex |-> ListIndex(Vertices(m), key)]

\* mesh.vertex_neighbors(key): the keys of halfedge[key].
VertexNeighbors(m, key) == SetToSeq(DOMAIN m.halfedge[key])

\* One appended triple: data.append(d), rows.append(r), cols.append(c).
Entry(r, c, d) == [row |-> r, col |-> c, data |-> d]

\* Mutant of NeighbourWeight: the weight is not divided by the neighbour count.
NeighbourWeightUndivided(w) == -Unit

\* Line 239: d = - 1. / w, for w # 0.
NeighbourWeight(w) == -(Unit \div w)

\* Lines 232-244, one turn of the loop over the vertices: the triples appended
\* for key, or the ZeroDivisionError of line 239 when key has no neighbour
\* (the diagonal triple was appended before it).
LaplacianRow(m, key_index, key) ==
    LET r    == key_index[key]
        nbrs == VertexNeighbors(m, key)
        w    == Len(nbrs)
    IN  IF w = 0
        THEN [status |-> "error", entries |-> << Entry(r, r, Unit) >>]
        ELSE [status |-> "ok",
              entries |-> << Entry(r, r, Unit) >>
                          \o [k \in 1..w |-> Entry(r, key_index[nbrs[k]], NeighbourWeight(w))]]

\* Lines 231-244: the loop from the k-th vertex on; it ends at the first
\* exception.
RECURSIVE LaplacianLoop(_, _, _, _, _)
LaplacianLoop(m, key_index, keys, k, entries) ==
    IF k > Len(keys) THEN [status |-> "ok", entries |-> entries]
    ELSE LET row == LaplacianRow(m, key_index, keys[k])
         IN  IF row.status = "error"
             THEN [status |-> "error", entries |-> entries \o row.entries]
             ELSE LaplacianLoop(m, key_index, keys, k + 1, entries \o row.entries)

\* The sum of the data of the triples at (i, j), from the k-th triple on:
\* triples at the same place are added up when the matrix is converted.
RECURSIVE SumAt(_, _, _, _)
SumAt(entries, k, i, j) ==
    IF k > Len(entries) THEN 0
    ELSE (IF entries[k].row = i /\ entries[k].col = j THEN entries[k].data ELSE 0)
         + SumAt(entries, k + 1, i, j)

\* The matrix of nr rows and nc columns of the triples.
MatrixOfShape(entries, nr, nc) ==
    [rows |-> nr, cols |-> nc,
     at   |-> [ij \in (0..(nr - 1)) \X (0..(nc - 1)) |-> SumAt(entries, 1, ij[1], ij[2])]]

\* The sum of the entries of row i of a matrix, from column j on.
RECURSIVE RowSum(_, _, _)
RowSum(L, i, j) == IF j >= L.cols THEN 0 ELSE L.at[<<i, j>>] + RowSum(L, i, j + 1)

\* The largest element of a non-empty set of integers.
Max(S) == CHOOSE x \in S : \A y \in S : y <= x

\* coo_matrix((data, (rows, cols))): the shape is taken from the largest row
\* and the largest column of the triples.
CooMatrix(entries) ==
    MatrixOfShape(entries,
                  Max({ entries[k].row : k \in 1..Len(entries) }) + 1,
                  Max({ entries[k].col : k \in 1..Len(entries) }) + 1)

\* The outcome of a function of matrices.py.
MatrixRaise     == [status |-> "error", ret |-> <<>>]
MatrixReturn(L) == [status |-> "ok", ret |-> L]

\* mesh_laplacian_matrix(mesh), with the default rtype.
MeshLaplacianMatrix(m) ==
    LET loop == LaplacianLoop(m, KeyIndex(m), Vertices(m), 1, <<>>)
    IN  IF loop.status = "error" THEN MatrixRaise
        ELSE MatrixReturn(CooMatrix(loop.entries))

\* The meshes the matrices are built from, before any split: the meshes
\* above and three vertices without a face.
MatrixMeshes == InitialMeshes \cup { FromVerticesAndFaces(3, <<>>) }

InitMatrices ==
    /\ \E m \in MatrixMeshes :
          /\ vertex = m.vertex
          /\ face = m.face
          /\ halfedge = m.halfedge
          /\ max_int_key = m.max_int_key
          /\ max_int_fkey = m.max_int_fkey
          /\ call = CallRecord("init", None, None, None, 5, FALSE, ReturnNone(m), m)
    /\ history = {}
    /\ analysis = NoAnalysis
    /\ matrix = NoMatrix
    /\ client = NoClient
    /\ service = NoService

\* No function of matrices.py was called yet.  A script edits the mesh by
\* edge splits and then builds a matrix from it: each function computes key_index and its
\* triples anew from the mesh it is handed (lines 229-230, 350-354) and keeps
\* nothing, so a matrix built earlier has no part in a later call.
Editing == matrix.op = "none"

EditMeshSplitEdge == Editing /\ CallMeshSplitEdge

EditTrimeshSplitEdge == Editing /\ CallTrimeshSplitEdge

\* The call op(u, v) of a function of matrices.py on the mesh, with outcome r.
MatrixCall(op, u, v, r) ==
    /\ Editing
    /\ matrix' = [op |-> op, u |-> u, v |-> v, status |-> r.status, ret |-> r.ret]
    /\ UNCHANGED <<MeshVars, analysis, client, service>>

CallMeshLaplacianMatrix ==
    /\ Running
    /\ MatrixCall("mesh_laplacian_matrix", None, None, MeshLaplacianMatrix(Mesh))

\* ------------------------------------------------- the cotangent Laplacian
\* Every face of the mesh is a triangle.
IsTriMesh(m) == \A fkey \in DOMAIN m.face : Len(m.face[fkey]) = 3

\* The cotangent of the angle at w between the vectors from w to u and from
\* w to v (line 309); the coordinates are not modelled, the value is named by
\* the three vertices.
AngleCotangent(w, u, v) == [cotangent |-> "angle", at |-> w, u |-> u, v |-> v]

\* The value 0.0 of line 304.
ZeroCotangent == [cotangent |-> "zero", at |-> None, u |-> None, v |-> None]

\* trimesh_edge_cotangent(mesh, u, v) for a half-edge (u, v) of the index.
\* Line 306 reads mesh.face[fkey][v]: the loop is a list and the key v is
\* taken as a position in it, which is an IndexError when the list is not
\* that long.  When the vertex read is u or v, one of the two vectors of
\* lines 307-308 is the zero vector, the cross product of line 309 has length
\* 0.0 and the division raises ZeroDivisionError.
TrimeshEdgeCotangent(m, u, v) ==
    LET fkey == m.halfedge[u][v]
    IN  IF fkey = None THEN MatrixReturn(ZeroCotangent)
        ELSE IF fkey \notin DOMAIN m.face \/ v >= Len(m.face[fkey]) THEN MatrixRaise
        ELSE LET w == ListItem(m.face[fkey], v)
             IN  IF w = u \/ w = v THEN MatrixRaise
                 ELSE MatrixReturn(AngleCotangent(w, u, v))

\* trimesh_edge_cotangents(mesh, u, v): lines 314 and 315 call
\* trimesh_edge_cotangent with two arguments, the mesh left out; the function
\* takes three, so the first call raises TypeError.
TrimeshEdgeCotangents(m, u, v) == MatrixRaise

\* mesh.edges(): every pair of joined vertices once, from the smaller key.
Edges(m) ==
    { uv \in m.vertex \X m.vertex :
         uv[1] < uv[2] /\ uv[1] \in DOMAIN m.halfedge /\ uv[2] \in DOMAIN m.halfedge[uv[1]] }

\* mesh.edges() as a sequence, in the order of the iteration.
RECURSIVE EdgeSeq(_)
EdgeSeq(E) ==
    IF E = {} THEN <<>>
    ELSE LET e == CHOOSE x \in E : \A y \in E :
                      x[1] < y[1] \/ (x[1] = y[1] /\ x[2] <= y[2])
         IN  <<e>> \o EdgeSeq(E \ {e})

\* Lines 357-366: the loop over the edges from the k-th on; it ends at the
\* first exception.  0.5 * a goes to (i, j) and 0.5 * b to (j, i).
RECURSIVE CotangentLoop(_, _, _, _, _)
CotangentLoop(m, key_index, edges, k, entries) ==
    IF k > Len(edges) THEN [status |-> "ok", entries |-> entries]
    ELSE LET u  == edges[k][1]
             v  == edges[k][2]
             ab == TrimeshEdgeCotangents(m, u, v)
             i  == key_index[u]
             j  == key_index[v]
         IN  IF ab.status = "error" THEN [status |-> "error", entries |-> entries]
             ELSE CotangentLoop(m, key_index, edges, k + 1,
                                entries \o << Entry(i, j, ab.ret[1] \div 2),
                                              Entry(j, i, ab.ret[2] \div 2) >>)

\* Line 371: L = L - spdiags(L * ones(n), 0, n, n), the sum of each row taken
\* off its diagonal entry.
SubtractRowSums(L) ==
    [L EXCEPT !.at = [ij \in DOMAIN L.at |->
                         IF ij[1] = ij[2] THEN L.at[ij] - RowSum(L, ij[1], 0) ELSE L.at[ij]]]

\* trimesh_cotangent_laplacian_matrix(mesh)
TrimeshCotangentLaplacianMatrix(m) ==
    LET n    == Cardinality(m.vertex)
        loop == CotangentLoop(m, KeyIndex(m), EdgeSeq(Edges(m)), 1, <<>>)
    IN  IF loop.status = "error" THEN MatrixRaise
        ELSE MatrixReturn(SubtractRowSums(MatrixOfShape(loop.entries, n, n)))

CallTrimeshEdgeCotangent ==
    /\ Running
    /\ IsTriMesh(Mesh)
    /\ \E u \in DOMAIN halfedge : \E v \in DOMAIN halfedge[u] :
          MatrixCall("trimesh_edge_cotangent", u, v, TrimeshEdgeCotangent(Mesh, u, v))

CallTrimeshCotangentLaplacianMatrix ==
    /\ Running
    /\ IsTriMesh(Mesh)
    /\ MatrixCall("trimesh_cotangent_laplacian_matrix", None, None,
                  TrimeshCotangentLaplacianMatrix(Mesh))

NextMatrices ==
    \/ EditMeshSplitEdge
    \/ EditTrimeshSplitEdge
    \/ CallMeshLaplacianMatrix
    \/ CallTrimeshEdgeCotangent
    \/ CallTrimeshCotangentLaplacianMatrix

SpecMatrices == InitMatrices /\ [][NextMatrices]_vars

\* mesh_laplacian_matrix was the last call on the mesh as it is.
LaplacianCalled == matrix.op = "mesh_laplacian_matrix"

\* The neighbours of a vertex of the mesh and their number.
Neighbours(key) == DOMAIN halfedge[key]

Degree(key) == Cardinality(Neighbours(key))

C15_IsolatedVertexGuarded ==
    (LaplacianCalled /\ \E key \in vertex : Degree(key) = 0)
        => /\ matrix.status = "ok"
           /\ \A key \in vertex : Degree(key) = 0 =>
                 \A j \in 0..(matrix.ret.cols - 1) :
                    j # KeyIndex(Mesh)[key] => matrix.ret.at[<<KeyIndex(Mesh)[key], j>>] = 0

\* trimesh_cotangent_laplacian_matrix was the last call on the mesh as it is.
CotangentLaplacianCalled == matrix.op = "trimesh_cotangent_laplacian_matrix"

\* C16 as stated: trimesh_cotangent_laplacian_matrix builds a matrix, and for
\* every edge (u, v) of the mesh its entries at (u, v) and at (v, u) are
\* equal (each one half the sum of the cotangents of the two sides).
C16_CotangentEntriesSymmetric ==
    CotangentLaplacianCalled
        => /\ matrix.status = "ok"
           /\ LET key_index == KeyIndex(Mesh)
              IN  \A uv \in Edges(Mesh) :
                     matrix.ret.at[<<key_index[uv[1]], key_index[uv[2]]>>]
                         = matrix.ret.at[<<key_index[uv[2]], key_index[uv[1]]>>]

\* C17 as stated: trimesh_cotangent_laplacian_matrix returns a matrix of n
\* rows and n columns, n the number of vertices, in which the diagonal entry
\* of a row is the negative of the sum of the other entries of the row, so
\* that every row sums to zero.
C17_CotangentRowsSumToZero ==
    CotangentLaplacianCalled
        => /\ matrix.status = "ok"
           /\ matrix.ret.rows = Cardinality(vertex)
           /\ matrix.ret.cols = Cardinality(vertex)
           /\ \A r \in 0..(matrix.ret.rows - 1) :
                 /\ RowSum(matrix.ret, r, 0) = 0
                 /\ matrix.ret.at[<<r, r>>] = -(RowSum(matrix.ret, r, 0) - matrix.ret.at[<<r, r>>])

\* trimesh_edge_cotangent was the last call on the mesh as it is.
EdgeCotangentCalled == matrix.op = "trimesh_edge_cotangent"

\* C18 as stated: for a half-edge (u, v) with a face on its left,
\* trimesh_edge_cotangent returns the cotangent of the angle at the entry of
\* the face loop that is neither u nor v, whatever the keys are and wherever
\* the stored loop starts; for a half-edge with no face it returns 0.
C18_CotangentAtThirdVertex ==
    EdgeCotangentCalled
        => IF halfedge[matrix.u][matrix.v] = None
           THEN matrix.status = "ok" /\ matrix.ret = ZeroCotangent
           ELSE /\ matrix.status = "ok"
                /\ matrix.ret.cotangent = "angle"
                /\ matrix.ret.at \notin {matrix.u, matrix.v}
                /\ ListHas(face[halfedge[matrix.u][matrix.v]], matrix.ret.at)

\* ---------------------------------------------------------------- rpc client
\* (compas/rpc/client.py)
\* The record client holds
\*   pc        where the script that uses the client is: "init" (in __init__,
\*             before start_server), "ping" (in the loop of start_server),
\*             "ready" (between two calls on the constructed client), "failed"
\*             (the constructor raised);
\*   process   self._process: "none", "running" (started by Popen) or
\*             "stopped" (terminated by stop_server);
\*   worker    the worker process itself: "none", "starting" (not yet
\*             answering), "listening" or "dead";
\*   count, success   the locals of start_server;
\*   pings, last_ping the pings start_server made and the outcome of the last;
\*   start     how start_server ended: "pending", "returned", "raised"
\*             (RPCServerError) or "oserror" (Popen raised);
\*   funcname  self._funcname;
\*   func      self._func: the name of the method of the proxy it is;
\*   accessed  the name of the last access client.<name> of the script;
\*   held      the name of the access that gave the callable f the script
\*             keeps;
\*   invoked, through, expected   of the last call f(...): the method of the
\*             proxy it invoked, and held and accessed as they were then;
\*   last      how the last call of func ended: "result", "no_output"
\*             (RPCServerError) or "fault" (the proxied call raised).
\* Line 53: count = 100
PingCount == 100

\* The names of remote functions the script asks the client for.
FuncNames == {"a", "b"}

\* The client after lines 28-38 of __init__: no process, no proxy; the
\* stop_server of line 38 finds nothing to stop.
NewClient == [NoClient EXCEPT !.pc = "init", !.start = "pending"]

InitClient ==
    /\ vertex = EmptyMesh.vertex
    /\ face = EmptyMesh.face
    /\ halfedge = EmptyMesh.halfedge
    /\ max_int_key = EmptyMesh.max_int_key
    /\ max_int_fkey = EmptyMesh.max_int_fkey
    /\ call = CallRecord("init", None, None, None, 5, FALSE, ReturnNone(EmptyMesh), EmptyMesh)
    /\ history = {}
    /\ analysis = NoAnalysis
    /\ matrix = NoMatrix
    /\ client = NewClient
    /\ service = NoService

\* Lines 45-53: the worker is started and the loop is entered, or Popen
\* raises (no such interpreter) and start_server ends with that exception.
StartServer ==
    /\ client.pc = "init"
    /\ \/ client' = [client EXCEPT !.pc = "ping", !.process = "running",
                                   !.worker = "starting", !.count = PingCount,
                                   !.success = FALSE]
       \/ client' = [client EXCEPT !.pc = "failed", !.start = "oserror"]
    /\ UNCHANGED <<MeshVars, analysis, matrix, service>>

\* Mutant of AfterLoop: start_server returns whether a ping succeeded or not.
AfterLoopReturns(c) == [c EXCEPT !.pc = "ready", !.start = "returned"]

\* Lines 63-64, after the loop: RPCServerError unless a ping succeeded.
AfterLoop(c) ==
    IF ~c.success
    THEN [c EXCEPT !.pc = "failed", !.start = "raised"]
    ELSE [c EXCEPT !.pc = "ready", !.start = "returned"]

\* Lines 60-62: the ping returned; success = True and the loop is left.
PingSucceeds(c) ==
    AfterLoop([c EXCEPT !.success = TRUE, !.pings = c.pings + 1, !.last_ping = "ok"])

\* Lines 57-59 and 54: the ping raised; after the sleep count is one less,
\* and the loop is left when it is 0.
PingFails(c) ==
    LET d == [c EXCEPT !.count = c.count - 1, !.pings = c.pings + 1, !.last_ping = "fail"]
    IN  IF d.count = 0 THEN AfterLoop(d) ELSE d

\* Lines 54-62: one turn of the loop.  The ping is answered when the worker
\* is listening.
Ping ==
    /\ client.pc = "ping"
    /\ client' = IF client.worker = "listening" THEN PingSucceeds(client)
                 ELSE PingFails(client)
    /\ UNCHANGED <<MeshVars, analysis, matrix, service>>

\* The worker has come up and answers.
WorkerListens ==
    /\ client.worker = "starting"
    /\ client' = [client EXCEPT !.worker = "listening"]
    /\ UNCHANGED <<MeshVars, analysis, matrix, service>>

\* The worker has ended on its own.
WorkerDies ==
    /\ client.worker \in {"starting", "listening"}
    /\ client' = [client EXCEPT !.worker = "dead"]
    /\ UNCHANGED <<MeshVars, analysis, matrix, service>>

\* Mutant of StoreMethod: the method of the proxy is stored by the first
\* access only.
StoreMethodOnce(c, funcname) ==
    [c EXCEPT !.funcname = funcname,
              !.func = IF c.func = "none" THEN funcname ELSE c.func]

\* Lines 81-86: the name and the method of the proxy of that name are stored
\* (a proxy has a method for every name, so line 86 is not reached).
StoreMethod(c, funcname) ==
    [c EXCEPT !.funcname = funcname, !.func = funcname]

\* Lines 80-88, __getattr__(funcname), for a name that is no attribute of
\* Client: the method is stored and self.func, the method func bound to
\* this client, is returned.  The script keeps what the access returned as
\* f, or drops it.
GetAttr ==
    /\ client.pc = "ready"
    /\ \E funcname \in FuncNames, keep \in BOOLEAN :
          client' = [StoreMethod(client, funcname) EXCEPT
                        !.accessed = funcname,
                        !.held = IF keep THEN funcname ELSE client.held]
    /\ UNCHANGED <<MeshVars, analysis, matrix, service>>

\* Lines 66-78, stop_server: the worker is told to end, the process is
\* terminated and killed; what fails of the three is passed over.
StopServer(c) ==
    [c EXCEPT !.process = IF c.process = "none" THEN "none" ELSE "stopped",
              !.worker  = IF c.worker = "none" THEN "none" ELSE "dead"]

\* Lines 90-100, func, by the outcome of the proxied call of line 92: it
\* raised (lines 93-95: stop_server, then the exception goes on to the
\* caller), it returned nothing (line 98), or it returned a result.
FuncEnds(c, outcome) ==
    IF outcome = "fault" THEN [StopServer(c) EXCEPT !.last = "fault"]
    ELSE [c EXCEPT !.last = outcome]

\* Line 92, self._func(*args, **kwargs): the method invoked is the stored
\* one, whatever access gave the callable.
Invoke(c) == [c EXCEPT !.invoked = c.func, !.through = c.held, !.expected = c.accessed]

\* The outcomes the proxied call can have: a worker that is not listening
\* answers nothing, a listening one can also answer with a fault.
FuncOutcomes(c) ==
    IF c.worker = "listening" THEN {"result", "no_output", "fault"} ELSE {"fault"}

\* A call f(...) of the callable the script keeps returned; the script
\* catches what it raises and goes on.
Func ==
    /\ client.pc = "ready"
    /\ client.held # "none"
    /\ \E outcome \in FuncOutcomes(client) : client' = FuncEnds(Invoke(client), outcome)
    /\ UNCHANGED <<MeshVars, analysis, matrix, service>>

NextClient ==
    \/ StartServer
    \/ Ping
    \/ WorkerListens
    \/ WorkerDies
    \/ GetAttr
    \/ Func

\* The constructor goes on by itself: start_server runs in the thread that
\* constructs the client, and each ping and each sleep of 0.01 s ends.
SpecClient ==
    InitClient /\ [][NextClient]_vars /\ WF_vars(StartServer) /\ WF_vars(Ping)

\* C19 as stated: when a call through func has failed with a fault of the
\* transport, the client has stopped the worker and started a new one: once
\* the fault is reported, the client holds a running worker process.
C19_FaultRestartsWorker ==
    (client.pc = "ready" /\ client.last = "fault")
        => client.process = "running" /\ client.worker \in {"starting", "listening"}

\* What holds of start_server at every moment: no more than PingCount pings;
\* in the loop, count pings are left and none has succeeded; it has returned
\* only with a successful last ping, the first one to succeed; it has raised
\* RPCServerError only after PingCount failed pings.
StartServerSafe ==
    /\ client.pings <= PingCount
    /\ client.pc = "ping"
          => /\ client.count \in 1..PingCount
             /\ client.pings = PingCount - client.count
             /\ ~client.success
    /\ client.start = "returned"
          => /\ client.success
             /\ client.last_ping = "ok"
             /\ client.pings = (PingCount - client.count) + 1
    /\ client.start = "raised"
          => /\ ~client.success
             /\ client.count = 0
             /\ client.pings = PingCount
             /\ client.last_ping = "fail"
    /\ (client.pings = PingCount /\ client.last_ping = "fail") => client.start = "raised"

\* C20: start_server ends, after at most PingCount pings: it returns at the
\* first ping that succeeds and pings no more, it raises RPCServerError
\* exactly when PingCount pings have failed.
C20_StartServerEnds == []StartServerSafe /\ <>(client.start # "pending")

\* start_server returned at its last chance: 99 pings failed, the 100th
\* succeeded.
C20_Witness ==
    /\ client.start = "returned"
    /\ client.pings = PingCount
    /\ client.count = 1

\* start_server raised RPCServerError after 100 failed pings.
C20_WitnessRaised == client.start = "raised" /\ client.pings = PingCount

\* C25: a call through the callable an access client.<name> gave invokes the
\* method of the proxy named by the most recent access client.<name> on the
\* client, also when the callable was obtained under another name.
C25_FuncInvokesLastAccessed ==
    client.invoked # "none" => client.invoked = client.expected

\* f was obtained as client.a, client.b was accessed, and the call f(...)
\* invoked b.
C25_Witness ==
    /\ client.through = "a"
    /\ client.expected = "b"
    /\ client.invoked = "b"

\* --------------------------------------------------------------- rpc service
\* (compas/rpc/service.py)
\* No request carries more arguments than this.
MaxArgs == 2

\* The API methods of the service (those of a subclass of Service): one that
\* returns what it computes, one that raises.
Methods == {"returns", "raises"}

\* The names asked for: the methods and a name the service does not have.
NameArgs == Methods \cup {"absent"}

\* The JSON texts that decode, each with the dictionary it decodes to (a
\* dictionary is named by a number).
JsonDocuments == [text \in {"{}", "{\"n\": 1}"} |-> IF text = "{}" THEN 0 ELSE 1]

\* The values handed as arguments: two JSON texts, a string that is no JSON,
\* a value that is no string.
ArgValues ==
    { [type |-> "str", text |-> "{}"], [type |-> "str", text |-> "{\"n\": 1}"],
      [type |-> "str", text |-> "{n: 1"], [type |-> "int", text |-> "7"] }

\* The argument lists of a request.
ArgLists == UNION { [1..n -> ArgValues] : n \in 0..MaxArgs }

\* json.loads(x): TypeError for what is no string, ValueError for a string
\* that is no JSON text, the decoded dictionary otherwise.
JsonLoads(x) ==
    IF x.type # "str" THEN [raised |-> "TypeError", value |-> None]
    ELSE IF x.text \notin DOMAIN JsonDocuments THEN [raised |-> "ValueError", value |-> None]
    ELSE [raised |-> "none", value |-> JsonDocuments[x.text]]

\* What _dispatch hands back or raises: a message (a plain string), the JSON
\* text of an output dictionary, or an exception.
Message(text)   == [status |-> "return", ret |-> [kind |-> "message", text |-> text,
                                                  data |-> None, error |-> "none", profile |-> "none"]]
Escapes(exc)    == [status |-> "raise", ret |-> [kind |-> "exception", text |-> exc,
                                                 data |-> None, error |-> "none", profile |-> "none"]]
Odict(data, error, profile) ==
    [status |-> "return", ret |-> [kind |-> "odict", text |-> "",
                                   data |-> data, error |-> error, profile |-> profile]]

\* json.dumps(odict): the text of the dictionary.
JsonDumps(odict) == [odict EXCEPT !.ret.kind = "json"]

\* The names the module has bound when _call_wrapped runs: lines 8-14 bind
\* StringIO, lines 16-19 bind Profile; cProfile and cStringIO, which lines 49
\* and 53 read, are bound by nothing.
BoundNames == {"os", "json", "StringIO", "Profile", "pstats", "traceback"}

\* The method called with the decoded dictionary: it hands it back, or raises.
MethodCall(name, idict) ==
    IF name = "raises" THEN [raised |-> TRUE, data |-> None]
    ELSE [raised |-> FALSE, data |-> idict]

\* Lines 49-57, the try block: whether it raised and whether the local data
\* was assigned (line 51) before it did.
TryBlock(name, idict) ==
    IF "cProfile" \notin BoundNames
    THEN [raised |-> TRUE, data_bound |-> FALSE, data |-> None]
    ELSE LET m == MethodCall(name, idict)
         IN  IF m.raised THEN [raised |-> TRUE, data_bound |-> FALSE, data |-> None]
             ELSE IF "cStringIO" \notin BoundNames
             THEN [raised |-> TRUE, data_bound |-> TRUE, data |-> m.data]
             ELSE [raised |-> FALSE, data_bound |-> TRUE, data |-> m.data]

\* _call_wrapped(method, idict), lines 45-67.  The except branch reads data
\* at line 59: when the try block raised before line 51 assigned it, that is
\* an UnboundLocalError, raised inside the handler.
CallWrapped(name, idict) ==
    LET t == TryBlock(name, idict)
    IN  IF t.raised
        THEN IF t.data_bound THEN Odict(t.data, "traceback", "null")
             ELSE Escapes("UnboundLocalError")
        ELSE Odict(t.data, "null", "stats")

\* _dispatch(name, args), lines 30-43.  Line 38 catches IndexError and
\* TypeError only.
Dispatch(name, args) ==
    IF name \notin Methods THEN Message("The requested method is not part of the API")
    ELSE IF Len(args) = 0
    THEN Message("API methods require a single JSON encoded dictionary as input")
    ELSE LET idict == JsonLoads(args[1])
         IN  IF idict.raised = "TypeError"
             THEN Message("API methods require a single JSON encoded dictionary as input")
             ELSE IF idict.raised = "ValueError" THEN Escapes("ValueError")
             ELSE LET odict == CallWrapped(name, idict.value)
                  IN  IF odict.status = "raise" THEN odict ELSE JsonDumps(odict)

InitService ==
    /\ vertex = EmptyMesh.vertex
    /\ face = EmptyMesh.face
    /\ halfedge = EmptyMesh.halfedge
    /\ max_int_key = EmptyMesh.max_int_key
    /\ max_int_fkey = EmptyMesh.max_int_fkey
    /\ call = CallRecord("init", None, None, None, 5, FALSE, ReturnNone(EmptyMesh), EmptyMesh)
    /\ history = {}
    /\ analysis = NoAnalysis
    /\ matrix = NoMatrix
    /\ client = NoClient
    /\ \E name \in NameArgs, args \in ArgLists :
          service = [name |-> name, args |-> args, status |-> "request", ret |-> <<>>]

\* The server hands the request to _dispatch.
CallDispatch ==
    /\ service.status = "request"
    /\ service' = [service EXCEPT
                      !.status = Dispatch(service.name, service.args).status,
                      !.ret    = Dispatch(service.name, service.args).ret]
    /\ UNCHANGED <<MeshVars, analysis, matrix, client>>

NextService == CallDispatch

SpecService == InitService /\ [][NextService]_vars

\* _dispatch has ended, with an answer or an exception.
Dispatched == service.status \in {"return", "raise"}

\* The request names a method and its first argument is a JSON text.
WellFormedRequest ==
    /\ service.name \in Methods
    /\ Len(service.args) > 0
    /\ JsonLoads(service.args[1]).raised = "none"

\* C21 as stated: _dispatch always returns, never raises; for a name that is
\* no method or an argument that is missing or no JSON it returns a message;
\* otherwise it returns the JSON text of a dictionary whose error is null and
\* whose data is the method's result when the method succeeds, and whose
\* error is the traceback and whose profile is null when the method raises.
C21_DispatchAlwaysAnswers ==
    Dispatched
        => /\ service.status = "return"
           /\ ~WellFormedRequest => service.ret.kind = "message"
           /\ WellFormedRequest
                 => /\ service.ret.kind = "json"
                    /\ IF MethodCall(service.name, JsonLoads(service.args[1]).value).raised
                       THEN service.ret.error = "traceback" /\ service.ret.profile = "null"
                       ELSE /\ service.ret.error = "null"
                            /\ service.ret.data = JsonLoads(service.args[1]).value

\* ------------------------------------------------- the index after the splits
\* (u, v) is a consecutive pair of the loop, the last entry being followed by
\* the first.
IsLoopPair(loop, u, v) ==
    \E k \in 1..Len(loop) : loop[k] = u /\ loop[(k % Len(loop)) + 1] = v

\* Every half-edge of the index that maps to a face maps to a face of the
\* face table, on whose loop it lies.
HalfedgesOnLoops(m) ==
    \A u \in DOMAIN m.halfedge : \A v \in DOMAIN m.halfedge[u] :
        m.halfedge[u][v] # None
            => /\ m.halfedge[u][v] \in DOMAIN m.face
               /\ IsLoopPair(m.face[m.halfedge[u][v]], u, v)

\* The start meshes have their half-edges on the loops.
StartHalfedgesOnLoops == \A m \in InitialMeshes : HalfedgesOnLoops(m)

\* C22: after any sequence of successful mesh_split_edge, mesh_split_face (at
\* two vertices that are not next to each other in the face) and
\* trimesh_split_edge calls, every value of the halfedge index that is not
\* None is the key of a face of the face table and the half-edge is a
\* consecutive pair of the loop of that face.
C22_HalfedgesPointAtLiveFaces ==
    ("adjacent" \notin history) => StartHalfedgesOnLoops /\ HalfedgesOnLoops(Mesh)

\* A triangle side of the split edge was replaced: its face key left the
\* face table and the half-edges of the inserted vertex map to new faces.
C22_Witness ==
    /\ Performed("trimesh_split_edge")
    /\ history = {}
    /\ Pre.halfedge[call.u][call.v] # None
    /\ Pre.halfedge[call.u][call.v] \notin DOMAIN face
    /\ halfedge[call.u][W] \in DOMAIN face
    /\ halfedge[W][call.v] \in DOMAIN face

\* A face was split between two vertices that are not neighbours: its key
\* left the face table and the new diagonal maps to the two new faces.
C22_WitnessFace ==
    /\ Performed("mesh_split_face")
    /\ "adjacent" \notin history
    /\ call.fkey \notin DOMAIN face
    /\ halfedge[call.u][call.v] \in DOMAIN face
    /\ halfedge[call.v][call.u] \in DOMAIN face

\* ------------------------------------------------------ symmetry of the index
\* The index has an entry (a, b) exactly when it has an entry (b, a).
HalfedgeSymmetric(m) ==
    \A a \in DOMAIN m.halfedge : \A b \in DOMAIN m.halfedge[a] :
        b \in DOMAIN m.halfedge /\ a \in DOMAIN m.halfedge[b]

\* A split of one of the three kinds was performed.
SplitPerformed ==
    \/ Performed("mesh_split_edge")
    \/ Performed("trimesh_split_edge")
    \/ Performed("mesh_split_face")

\* C23: after every successful mesh_split_edge, trimesh_split_edge (with or
\* without allow_boundary) and mesh_split_face the halfedge index has an
\* entry (a, b) exactly when it has an entry (b, a), so the adjacency read
\* from it is symmetric.
C23_HalfedgeIndexSymmetric ==
    SplitPerformed =>
        /\ HalfedgeSymmetric(Pre)
        /\ HalfedgeSymmetric(Mesh)
        /\ IsSymmetric(MeshAdjacency(Mesh))

\* A boundary edge of a triangle was split with allow_boundary: the index
\* lost (u, v) and (v, u) and has both directions of the edges from w to u,
\* to v and to the third vertex of the triangle.
C23_Witness ==
    /\ Performed("trimesh_split_edge")
    /\ call.allow_boundary
    /\ Pre.halfedge[call.u][call.v] # None
    /\ Pre.halfedge[call.v][call.u] = None
    /\ ~HasHalfedge(Mesh, call.u, call.v)
    /\ ~HasHalfedge(Mesh, call.v, call.u)
    /\ DOMAIN halfedge[W] = {call.u, call.v, Opposite(Pre.face[Pre.halfedge[call.u][call.v]], call.u)}
    /\ \A x \in DOMAIN halfedge[W] : W \in DOMAIN halfedge[x]

\* A face split entered both directions of the new diagonal.
C23_WitnessFace ==
    /\ Performed("mesh_split_face")
    /\ ~HasHalfedge(Pre, call.u, call.v)
    /\ HasHalfedge(Mesh, call.u, call.v)
    /\ HasHalfedge(Mesh, call.v, call.u)

\* ------------------------------------------- connectivity across the splits
\* A triangle and a vertex that no edge reaches: a mesh of two components.
TriangleAndIsolatedVertex == FromVerticesAndFaces(4, << <<0, 1, 2>> >>)

\* The start meshes of the splits, connected and not connected.
ComponentMeshes ==
    { TriangleAndIsolatedVertex,
      FromVerticesAndFaces(4, << <<0, 1, 2, 3>> >>),
      FromVerticesAndFaces(4, << <<0, 1, 2>>, <<0, 2, 3>> >>) }

InitSplitComponents ==
    \E m \in ComponentMeshes :
        /\ vertex = m.vertex
        /\ face = m.face
        /\ halfedge = m.halfedge
        /\ max_int_key = m.max_int_key
        /\ max_int_fkey = m.max_int_fkey
        /\ call = CallRecord("init", None, None, None, 5, FALSE, ReturnNone(m), m)
        /\ history = {}
        /\ analysis = NoAnalysis
        /\ matrix = NoMatrix
        /\ client = NoClient
        /\ service = NoService

\* The split operations on connected and not connected meshes.
SpecSplitComponents == InitSplitComponents /\ [][Next]_vars

\* The lists connected_components can return on the adjacency of the mesh.
MeshComponents(m) == ConnectedComponents(MeshAdjacency(m))

\* The answers mesh_is_connected can give on the mesh, one for every vertex
\* get_any_vertex can give.
MeshIsConnectedAnswers(m) ==
    IF m.vertex = {} THEN {FALSE}
    ELSE {MeshIsConnected(m.vertex, MeshAdjacency(m), x) : x \in m.vertex}

\* C24: connected_components returns as many components on the mesh after a
\* successful mesh_split_edge, trimesh_split_edge or mesh_split_face as
\* before it, mesh_is_connected gives the same answer, and the vertex w an
\* edge split inserts is in the component that held u and v.
C24_SplitsKeepComponents ==
    SplitPerformed =>
        /\ \A r \in MeshComponents(Pre), s \in MeshComponents(Mesh) : Len(r) = Len(s)
        /\ MeshIsConnectedAnswers(Pre) = MeshIsConnectedAnswers(Mesh)
        /\ Cardinality(MeshIsConnectedAnswers(Mesh)) = 1
        /\ call.op # "mesh_split_face" =>
              \A r \in MeshComponents(Pre), s \in MeshComponents(Mesh) :
                  \E i \in 1..Len(r), k \in 1..Len(s) :
                      /\ {call.u, call.v} \subseteq r[i]
                      /\ s[k] = r[i] \cup {W}

\* An edge of the triangle beside the isolated vertex was split: two
\* components before and after, w with u and v.
C24_Witness ==
    /\ SplitPerformed
    /\ call.op # "mesh_split_face"
    /\ \E s \in MeshComponents(Mesh) : Len(s) = 2
    /\ MeshIsConnectedAnswers(Mesh) = {FALSE}

\* A connected mesh was split and stayed connected.
C24_WitnessConnected ==
    /\ SplitPerformed
    /\ MeshIsConnectedAnswers(Pre) = {TRUE}
    /\ MeshIsConnectedAnswers(Mesh) = {TRUE}

====
